---- MODULE Spec2Model ----
(***************************************************************************)
(* Model of lkh_solve (ml4co_kit/solver/tsp/lkh_solver/solve.py): the      *)
(* orchestration around the external LKH process, its temporary files and  *)
(* failure paths, and the tour-to-routes decoding loop.                    *)
(*                                                                         *)
(* One invocation of lkh_solve is followed from its call to the point      *)
(* where it returns routes or an exception reaches the caller.  The        *)
(* function is sequential; pc names the statement about to run.            *)
(***************************************************************************)
EXTENDS Integers, Sequences, FiniteSets, TLC

\* ------------------------------------------------------------------ bounds
MaxNode    == 3   \* node identifiers are 1..MaxNode
MaxTourLen == 3   \* tours[0] of the solution file holds 0..MaxTourLen identifiers
MaxOutLen  == 1   \* bytes of solver output captured on a non-zero exit

Nodes == 1..MaxNode

\* Bytes the solver may write to its combined output: two ASCII letters and
\* 0xFF, a byte that never occurs in well-formed UTF-8.
OutBytes == {65, 66, 255}

RECURSIVE SeqsUpTo(_, _)
SeqsUpTo(S, n) ==
    IF n = 0 THEN {<<>>}
    ELSE LET shorter == SeqsUpTo(S, n - 1)
         IN  shorter \cup {Append(s, x) : s \in {t \in shorter : Len(t) = n - 1}, x \in S}

Tours   == SeqsUpTo(Nodes, MaxTourLen)
Outputs == SeqsUpTo(OutBytes, MaxOutLen)

\* ------------------------------------------------------------- file names
CallerProb == "caller_problem_file"   \* params["problem_file"] as passed in
CallerTour == "caller_tour_file"      \* params["tour_file"] as passed in
TmpProb    == "tmp_prob_file"         \* prob_file.name
TmpTour    == "tmp_tour_file"         \* tour_file.name
TmpPar     == "tmp_par_file"          \* par_file.name
Unset      == "<unset>"               \* key not in params
TempFiles  == {TmpProb, TmpTour, TmpPar}

\* What a tour file on disk can hold: nothing (size 0), text the solution
\* loader rejects or that holds no tour, or a solution whose tours[0] is tour.
TourFileContents ==
    {[kind |-> "empty", tour |-> <<>>], [kind |-> "malformed", tour |-> <<>>]}
        \cup {[kind |-> "tours", tour |-> t] : t \in Tours}

VARIABLES
    pc,           \* statement of lkh_solve about to run
    searchPath,   \* executables resolvable on PATH
    solver,       \* the solver argument
    argProblem,   \* the call passed problem (is not None)
    argProblemFile, \* the call passed problem_file in params
    argTourFile,  \* the call passed tour_file in params
    problem,      \* "None" or "object": the local variable problem
    depots,       \* problem.depots
    dimension,    \* problem.dimension
    params,       \* [problem_file, tour_file]: the params dict's two keys
    warned,       \* the multi-depot warning was issued
    fs,           \* files that exist
    tourContent,  \* content of the tour file named in params, when it exists
    parContent,   \* what the parameter file tells the solver
    locals,       \* which of prob_file, tour_file, par_file are bound
    created,      \* files this invocation created
    removed,      \* files this invocation passed to os.remove
    loads,        \* LKHProblem.load calls on a problem file
    solverRuns,   \* times the solver process was spawned
    solverExit,   \* exit status of the solver, -1 before it ran
    solverOut,    \* bytes captured from a failed solver
    inspected,    \* the tour file was stat'ed or loaded
    tour,         \* solution.tours[0]
    idx,          \* position of the for loop in tour
    route,        \* accumulator route
    routes,       \* output routes
    result        \* what reached the caller: [kind, payload]

vars == <<pc, searchPath, solver, argProblem, argProblemFile, argTourFile,
          problem, depots, dimension, params, warned, fs, tourContent,
          parContent, locals, created, removed, loads, solverRuns, solverExit,
          solverOut, inspected, tour, idx, route, routes, result>>

inputs == <<searchPath, solver, argProblem, argProblemFile, argTourFile,
            depots, dimension>>

NoResult == [kind |-> "none", payload |-> <<>>]

\* --------------------------------------------------------- pure operators

\* shutil.which(solver): the resolved name, or "None".
which_NoCheck(s, path) == s
which(s, path) == IF s \in path THEN s ELSE "None"

\* ("problem_file" in params) ^ (problem is not None)
ArgsValid_Or(hasFile, hasProblem) == hasFile \/ hasProblem
ArgsValid(hasFile, hasProblem) == hasFile # hasProblem

\* bytes.decode(): strict UTF-8.  A byte >= 0x80 that starts no valid
\* sequence makes decode raise UnicodeDecodeError.
Utf8Valid(bs) == \A i \in 1..Len(bs) : bs[i] < 128
Chr(b) == CASE b = 65 -> "A" [] b = 66 -> "B" [] OTHER -> "?"
decode(bs) == [i \in 1..Len(bs) |-> Chr(bs[i])]

\* node in problem.depots or node > problem.dimension
IsSeparator_DepotOnly(node, deps, dim) == node \in deps
IsSeparator_Geq(node, deps, dim) == node \in deps \/ node >= dim
IsSeparator(node, deps, dim) == node \in deps \/ node > dim

\* if len(route) > 0: routes.append(route)
EmitRoute_Always(rs, r) == Append(rs, r)
EmitRoute(rs, r) == IF Len(r) > 0 THEN Append(rs, r) ELSE rs

\* route.append(node)
AppendNode_Front(r, node) == <<node>> \o r
AppendNode(r, node) == Append(r, node)

\* routes.append(route) after the loop
FinalRoutes_NonEmpty(rs, r) == IF Len(r) > 0 THEN Append(rs, r) ELSE rs
FinalRoutes(rs, r) == Append(rs, r)

\* The files the three os.remove calls at the end name.
CleanupTargets_Params(locs, ps) ==
    {TmpPar, ps.problem_file, ps.tour_file}
CleanupTargets(locs, ps) ==
    {TmpPar}
        \cup (IF "prob_file" \in locs THEN {TmpProb} ELSE {})
        \cup (IF "tour_file" \in locs THEN {TmpTour} ELSE {})

\* ------------------------------------------------------------------- Init
Init ==
    /\ pc = "which"
    /\ solver = "LKH"
    /\ searchPath \in {{}, {"LKH"}}
    /\ argProblem \in BOOLEAN
    /\ argProblemFile \in BOOLEAN
    /\ argTourFile \in BOOLEAN
    /\ problem = IF argProblem THEN "object" ELSE "None"
    /\ depots \in SUBSET Nodes
    /\ dimension \in 1..MaxNode
    /\ params = [problem_file |-> IF argProblemFile THEN CallerProb ELSE Unset,
                 tour_file    |-> IF argTourFile THEN CallerTour ELSE Unset]
    /\ warned = FALSE
    \* the caller's problem file exists; the caller's tour file may or may not
    /\ \E tourThere \in BOOLEAN :
          fs = (IF argProblemFile THEN {CallerProb} ELSE {})
                  \cup (IF argTourFile /\ tourThere THEN {CallerTour} ELSE {})
    /\ tourContent = [kind |-> "empty", tour |-> <<>>]
    /\ parContent = [problem_file |-> Unset, tour_file |-> Unset]
    /\ locals = {}
    /\ created = {}
    /\ removed = {}
    /\ loads = 0
    /\ solverRuns = 0
    /\ solverExit = -1
    /\ solverOut = <<>>
    /\ inspected = FALSE
    /\ tour = <<>>
    /\ idx = 1
    /\ route = <<>>
    /\ routes = <<>>
    /\ result = NoResult

Raise(kind, payload) ==
    /\ pc' = "raised"
    /\ result' = [kind |-> kind, payload |-> payload]

\* ---------------------------------------------------------------- actions

\* if shutil.which(solver) is None: raise ValueError(message)
CheckSolver ==
    /\ pc = "which"
    /\ IF which(solver, searchPath) = "None"
         THEN Raise("ValueError", <<>>)
         ELSE pc' = "assert" /\ UNCHANGED result
    /\ UNCHANGED <<inputs, problem, params, warned, fs, tourContent, parContent,
                   locals, created, removed, loads, solverRuns, solverExit,
                   solverOut, inspected, tour, idx, route, routes>>

\* assert ("problem_file" in params) ^ (problem is not None)
CheckArgs ==
    /\ pc = "assert"
    /\ IF ArgsValid(params.problem_file # Unset, problem # "None")
         THEN pc' = "load" /\ UNCHANGED result
         ELSE Raise("AssertionError", <<>>)
    /\ UNCHANGED <<inputs, problem, params, warned, fs, tourContent, parContent,
                   locals, created, removed, loads, solverRuns, solverExit,
                   solverOut, inspected, tour, idx, route, routes>>

\* if "problem_file" in params: problem = LKHProblem.load(...)
\* if len(problem.depots) > 1: warnings.warn(...)
LoadProblem ==
    /\ pc = "load"
    /\ IF params.problem_file # Unset
         THEN problem' = "object" /\ loads' = loads + 1
         ELSE UNCHANGED <<problem, loads>>
    /\ warned' = (Cardinality(depots) > 1)
    /\ pc' = "prob"
    /\ UNCHANGED <<inputs, params, fs, tourContent, parContent, locals, created,
                   removed, solverRuns, solverExit, solverOut, inspected, tour,
                   idx, route, routes, result>>

\* prob_file = NamedTemporaryFile(delete=False); problem.write(prob_file); ...
\* params["problem_file"] = prob_file.name
WriteProblem ==
    /\ pc = "prob"
    /\ fs' = fs \cup {TmpProb}
    /\ created' = created \cup {TmpProb}
    /\ locals' = locals \cup {"prob_file"}
    /\ params' = [params EXCEPT !.problem_file = TmpProb]
    /\ pc' = "tourfile"
    /\ UNCHANGED <<inputs, problem, warned, tourContent, parContent, removed,
                   loads, solverRuns, solverExit, solverOut, inspected, tour,
                   idx, route, routes, result>>

\* if "tour_file" not in params: tour_file = NamedTemporaryFile(...); ...
MakeTourFile ==
    /\ pc = "tourfile"
    /\ IF params.tour_file = Unset
         THEN /\ fs' = fs \cup {TmpTour}
              /\ created' = created \cup {TmpTour}
              /\ locals' = locals \cup {"tour_file"}
              /\ params' = [params EXCEPT !.tour_file = TmpTour]
         ELSE UNCHANGED <<fs, created, locals, params>>
    /\ pc' = "par"
    /\ UNCHANGED <<inputs, problem, warned, tourContent, parContent, removed,
                   loads, solverRuns, solverExit, solverOut, inspected, tour,
                   idx, route, routes, result>>

\* par_file = NamedTemporaryFile(...); one "KEY = value" line per param
WriteParams ==
    /\ pc = "par"
    /\ fs' = fs \cup {TmpPar}
    /\ created' = created \cup {TmpPar}
    /\ locals' = locals \cup {"par_file"}
    /\ parContent' = params
    /\ pc' = "run"
    /\ UNCHANGED <<inputs, problem, params, warned, tourContent, removed, loads,
                   solverRuns, solverExit, solverOut, inspected, tour, idx,
                   route, routes, result>>

\* What the solver process does to the tour file the parameter file names:
\* nothing, or (over)write it.
SolverWrites ==
    \/ UNCHANGED <<fs, tourContent>>
    \/ \E w \in TourFileContents :
          /\ fs' = fs \cup {parContent.tour_file}
          /\ tourContent' = w

\* subprocess.check_output([solver, par_file.name], ...) returning normally
RunSolverOk ==
    /\ pc = "run"
    /\ solverRuns' = solverRuns + 1
    /\ solverExit' = 0
    /\ SolverWrites
    /\ pc' = "check"
    /\ UNCHANGED <<inputs, problem, params, warned, parContent, locals, created,
                   removed, loads, solverOut, inspected, tour, idx, route,
                   routes, result>>

\* except subprocess.CalledProcessError as e: raise Exception(e.output.decode())
RunSolverFail ==
    /\ pc = "run"
    /\ solverRuns' = solverRuns + 1
    /\ solverExit' = 1
    /\ SolverWrites
    /\ \E out \in Outputs :
          /\ solverOut' = out
          /\ IF Utf8Valid(out)
               THEN Raise("Exception", decode(out))
               ELSE Raise("UnicodeDecodeError", <<>>)
    /\ UNCHANGED <<inputs, problem, params, warned, parContent, locals, created,
                   removed, loads, inspected, tour, idx, route, routes>>

\* if not os.path.isfile(tour_file) or os.stat(tour_file).st_size == 0: raise
CheckTour ==
    /\ pc = "check"
    /\ inspected' = TRUE
    /\ IF params.tour_file \notin fs \/ tourContent.kind = "empty"
         THEN Raise("NoToursException", <<>>)
         ELSE pc' = "parse" /\ UNCHANGED result
    /\ UNCHANGED <<inputs, problem, params, warned, fs, tourContent, parContent,
                   locals, created, removed, loads, solverRuns, solverExit,
                   solverOut, tour, idx, route, routes>>

\* solution = LKHProblem.load(params["tour_file"]); tour = solution.tours[0]
\* routes = []; route = []
ParseTour ==
    /\ pc = "parse"
    /\ IF tourContent.kind = "tours"
         THEN /\ tour' = tourContent.tour
              /\ idx' = 1
              /\ route' = <<>>
              /\ routes' = <<>>
              /\ pc' = "loop"
              /\ UNCHANGED result
         ELSE /\ Raise("ParseError", <<>>)
              /\ UNCHANGED <<tour, idx, route, routes>>
    /\ UNCHANGED <<inputs, problem, params, warned, fs, tourContent, parContent,
                   locals, created, removed, loads, solverRuns, solverExit,
                   solverOut, inspected>>

\* one iteration of: for node in tour
LoopStep ==
    /\ pc = "loop"
    /\ idx <= Len(tour)
    /\ LET node == tour[idx] IN
         IF IsSeparator(node, depots, dimension)
           THEN /\ routes' = EmitRoute(routes, route)
                /\ route' = <<>>
           ELSE /\ route' = AppendNode(route, node)
                /\ UNCHANGED routes
    /\ idx' = idx + 1
    /\ UNCHANGED <<pc, inputs, problem, params, warned, fs, tourContent,
                   parContent, locals, created, removed, loads, solverRuns,
                   solverExit, solverOut, inspected, tour, result>>

\* routes.append(route) once the loop is exhausted
LoopEnd ==
    /\ pc = "loop"
    /\ idx > Len(tour)
    /\ routes' = FinalRoutes(routes, route)
    /\ pc' = "cleanup"
    /\ UNCHANGED <<inputs, problem, params, warned, fs, tourContent, parContent,
                   locals, created, removed, loads, solverRuns, solverExit,
                   solverOut, inspected, tour, idx, route, result>>

\* os.remove(par_file.name); if "prob_file" in locals(): ...; return routes
Cleanup ==
    /\ pc = "cleanup"
    /\ LET gone == CleanupTargets(locals, params) IN
         /\ fs' = fs \ gone
         /\ removed' = removed \cup gone
    /\ pc' = "returned"
    /\ result' = [kind |-> "routes", payload |-> routes]
    /\ UNCHANGED <<inputs, problem, params, warned, tourContent, parContent,
                   locals, created, loads, solverRuns, solverExit, solverOut,
                   inspected, tour, idx, route, routes>>

Next ==
    \/ CheckSolver
    \/ CheckArgs
    \/ LoadProblem
    \/ WriteProblem
    \/ MakeTourFile
    \/ WriteParams
    \/ RunSolverOk
    \/ RunSolverFail
    \/ CheckTour
    \/ ParseTour
    \/ LoopStep
    \/ LoopEnd
    \/ Cleanup

Spec == Init /\ [][Next]_vars

\* ----------------------------------------------------------------- claims

\* A separator as the decoding contract defines it, for the problem at hand.
SepSpec(n) == n \in depots \/ n > dimension

RECURSIVE Flatten(_)
Flatten(rs) == IF rs = <<>> THEN <<>> ELSE Head(rs) \o Flatten(Tail(rs))

NonSeparators(t) == SelectSeq(t, LAMBDA n : ~SepSpec(n))
NumSeparators(t) == Cardinality({i \in 1..Len(t) : SepSpec(t[i])})

Decoded  == pc \in {"cleanup", "returned"}
Finished == pc \in {"returned", "raised"}

\* C1: on every exit path reached after a temporary file was created, every
\* temporary file this invocation created has been deleted when the result
\* or the failure reaches the caller.
C1_CleanupOnEveryExit ==
    (Finished /\ created # {}) => (created \cap fs = {})

\* C2: the output routes, concatenated in output order, are exactly the
\* non-separator identifiers of the tour, in order and with multiplicity;
\* the routes handed to the caller are those routes.
C2_RoutesPreserveTaskNodes ==
    /\ Decoded => Flatten(routes) = NonSeparators(tour)
    /\ pc = "returned" => result.payload = routes

C2_Witness ==
    /\ pc = "returned"
    /\ Len(routes) >= 2
    /\ \E i, j \in 1..Len(tour) : i < j /\ tour[i] = tour[j] /\ ~SepSpec(tour[i])

\* C3: no identifier in any output route, nor in the accumulator route at
\* any step of the traversal, is a depot or exceeds dimension.
C3_NoSeparatorInRoutes ==
    /\ \A i \in 1..Len(route) : ~SepSpec(route[i])
    /\ \A k \in 1..Len(routes) : \A i \in 1..Len(routes[k]) : ~SepSpec(routes[k][i])

C3_Witness ==
    /\ pc = "loop"
    /\ idx > Len(tour)
    /\ routes # <<>>
    /\ \E i \in 1..Len(tour) : tour[i] \in depots
    /\ \E i \in 1..Len(tour) : tour[i] \notin depots /\ tour[i] > dimension

\* C4: a non-zero solver exit reaches the caller as the generic Exception
\* carrying the captured output, without the tour file being inspected; a
\* zero exit with a missing or empty tour file reaches the caller as
\* NoToursException; the solver runs at most once; routes are returned only
\* after a zero exit with an existing, non-empty tour file.
C4_FailuresDistinguished ==
    /\ solverRuns <= 1
    /\ solverExit = 1 =>
          /\ pc = "raised"
          /\ result.kind = "Exception"
          /\ Len(result.payload) = Len(solverOut)
          /\ \A i \in 1..Len(solverOut) : result.payload[i] = Chr(solverOut[i])
          /\ ~inspected
    /\ (solverExit = 0 /\ inspected /\ pc # "returned"
            /\ (params.tour_file \notin fs \/ tourContent.kind = "empty")) =>
          /\ pc = "raised"
          /\ result.kind = "NoToursException"
    /\ pc \in {"parse", "loop", "cleanup", "returned"} =>
          /\ solverExit = 0
          /\ solverRuns = 1
          /\ tourContent.kind # "empty"
          /\ pc # "returned" => params.tour_file \in fs
    /\ result.kind = "routes" => pc = "returned"

\* C5: with the solver executable not resolvable, lkh_solve fails with the
\* configuration error (ValueError) before any temporary file exists and
\* before any process is spawned, whatever the other arguments are.
C5_MissingSolverFailsFast ==
    solver \notin searchPath =>
        /\ pc \in {"which", "raised"}
        /\ pc = "raised" => result.kind = "ValueError"
        /\ created = {}
        /\ fs \cap TempFiles = {}
        /\ solverRuns = 0
        /\ loads = 0

C5_Witness ==
    /\ solver \notin searchPath
    /\ pc = "raised"
    /\ argProblem /\ argProblemFile

\* C6: with the solver resolvable, passing both a problem object and a
\* problem_file, or neither, fails with the precondition violation
\* (AssertionError) with no temporary file created, no problem file loaded
\* and no solver spawned; passing exactly one passes the check.
C6_ExactlyOneProblemSource ==
    /\ (solver \in searchPath /\ argProblem = argProblemFile) =>
          /\ pc \in {"which", "assert", "raised"}
          /\ pc = "raised" => result.kind = "AssertionError"
          /\ created = {}
          /\ fs \cap TempFiles = {}
          /\ loads = 0
          /\ solverRuns = 0
    /\ (solver \in searchPath /\ argProblem # argProblemFile) =>
          /\ result.kind # "AssertionError"
          /\ pc = "raised" => solverRuns = 1

C6_Witness ==
    /\ solver \in searchPath
    /\ argProblem /\ argProblemFile
    /\ pc = "raised"
    /\ result.kind = "AssertionError"

\* C7: a tour without any separator decodes to exactly one route, equal to
\* the tour.
C7_NoSeparatorOneRoute ==
    (Decoded /\ NumSeparators(tour) = 0) => routes = <<tour>>

C7_Witness ==
    /\ pc = "returned"
    /\ NumSeparators(tour) = 0
    /\ Len(tour) >= 2
    /\ \E i \in 1..Len(tour) : tour[i] = dimension

\* C8: a non-empty tour made only of separators decodes to exactly one
\* route, and that route is empty.
C8_OnlySeparatorsOneEmptyRoute ==
    (Decoded /\ Len(tour) >= 1 /\ NumSeparators(tour) = Len(tour))
        => routes = << <<>> >>

C8_Witness ==
    /\ pc = "returned"
    /\ Len(tour) >= 2
    /\ NumSeparators(tour) = Len(tour)

\* C9: every output route but the last is non-empty, there is at least one
\* route, the last route is empty exactly when the tour is empty or ends in
\* a separator, and there are at most (number of separators + 1) routes.
C9_EmptyRouteAsymmetry ==
    Decoded =>
        /\ Len(routes) >= 1
        /\ \A k \in 1..(Len(routes) - 1) : routes[k] # <<>>
        /\ (routes[Len(routes)] = <<>>)
              <=> (tour = <<>> \/ SepSpec(tour[Len(tour)]))
        /\ Len(routes) <= NumSeparators(tour) + 1

C9_Witness ==
    /\ pc = "returned"
    /\ Len(routes) = 2
    /\ routes[2] = <<>>
    /\ \E i \in 1..(Len(tour) - 1) : SepSpec(tour[i]) /\ SepSpec(tour[i + 1])

\* C10: lkh_solve removes only files it created.  A tour_file passed by the
\* caller is never removed (on success exactly the parameter file and the
\* temporary problem file are); a problem_file passed by the caller is only
\* read, stays in place, and the solver is pointed at the temporary copy.
C10_RemovesOnlyOwnFiles ==
    /\ removed \subseteq created
    /\ argProblemFile => CallerProb \in fs
    /\ solverRuns > 0 => parContent.problem_file = TmpProb
    /\ argTourFile =>
          /\ CallerTour \notin removed
          /\ pc # "returned" => removed = {}
          /\ pc = "returned" => (removed = {TmpPar, TmpProb} /\ CallerTour \in fs)

C10_Witness ==
    /\ pc = "returned"
    /\ argTourFile
    /\ argProblemFile
    /\ loads = 1

====
